---------------------------- MODULE Spec2Model ----------------------------
(***************************************************************************)
(* Model of skills/prediction-arb/scripts/detect_arbitrage.py: the name    *)
(* normaliser, the fuzzy matcher, the four-strategy evaluator and the      *)
(* ranking done by detect_arbitrage.                                       *)
(*                                                                         *)
(* Numbers.  Python floats are modelled as exact rationals, a record       *)
(* [n |-> numerator, d |-> denominator] in lowest terms with d > 0, so     *)
(* record equality is numeric equality.  Rounding of binary floating       *)
(* point is modelled in the runs of SpecFloat only, at a reduced width.    *)
(*                                                                         *)
(* Strings.  A Python str is a sequence of one-character strings over a    *)
(* small alphabet that has an upper-case letter, lower-case letters, a     *)
(* blank and the punctuation the normaliser removes.                       *)
(***************************************************************************)
EXTENDS Integers, Sequences, FiniteSets, TLC

VARIABLES
    POLYMARKET_FEE,   \* module global, read from the environment at import
    KALSHI_FEE,       \* module global, read from the environment at import
    MATCH_THRESHOLD,  \* module global, read from the environment at import
    polymarket,       \* list of Polymarket snapshots (polymarket_data.json)
    kalshi,           \* list of Kalshi snapshots (kalshi_data.json)
    matches,          \* detect_arbitrage: result of find_matching_events
    all_rows,         \* detect_arbitrage: rows collected so far
    df,               \* detect_arbitrage: the returned DataFrame
    pc,               \* position of the running program
    call,             \* the last direct call of a pure function, with its result
    fetched,          \* how the run of each venue's fetch script ended
    out,              \* what main of detect_arbitrage.py reported
    csv,              \* the file arbitrage_opportunities.csv
    report            \* what generate_report returned

vars == <<POLYMARKET_FEE, KALSHI_FEE, MATCH_THRESHOLD, polymarket, kalshi,
          matches, all_rows, df, pc, call, fetched, out, csv, report>>

-----------------------------------------------------------------------------
(* Bounds of the model *)

MaxPoly == 2      \* longest Polymarket input list
MaxKalshi == 2    \* longest Kalshi input list
MaxNameLen == 4   \* longest string handed to normalize_event_name directly
MaxSimLen == 4    \* longest string handed to similarity directly
MaxQuotes == 1    \* longest Kalshi list in the runs over quoted markets
MaxReportList == 1  \* longest input list in the runs followed by a report
MantissaBits == 4   \* significant bits of a float in the floating-point runs

-----------------------------------------------------------------------------
(* Exact rational arithmetic standing for Python float arithmetic *)

Abs(x) == IF x < 0 THEN -x ELSE x

RECURSIVE GCD(_, _)
GCD(a, b) == IF b = 0 THEN a ELSE GCD(b, a % b)

Rat(n, d) ==
    LET s == IF d < 0 THEN -1 ELSE 1
        g == GCD(Abs(n), Abs(d))
    IN  [n |-> (s * n) \div g, d |-> (s * d) \div g]

Zero == Rat(0, 1)
One == Rat(1, 1)
Hundred == Rat(100, 1)

Add(x, y) == Rat(x.n * y.d + y.n * x.d, x.d * y.d)
Sub(x, y) == Rat(x.n * y.d - y.n * x.d, x.d * y.d)
Mul(x, y) == Rat(x.n * y.n, x.d * y.d)
Div(x, y) == Rat(x.n * y.d, x.d * y.n)
Lt(x, y) == x.n * y.d < y.n * x.d
Le(x, y) == x.n * y.d <= y.n * x.d

\* truth value of a Python float: 0.0 is falsy
Truthy(x) == x # Zero

-----------------------------------------------------------------------------
(* Strings *)

Blank == " "

LowerChar(c) == CASE c = "A" -> "a"
                  [] c = "B" -> "b"
                  [] OTHER -> c

\* str.lower()
Lower(s) == [k \in 1..Len(s) |-> LowerChar(s[k])]

\* str.strip(): drop leading and trailing whitespace
RECURSIVE LStrip(_)
LStrip(s) == IF s # <<>> /\ Head(s) = Blank THEN LStrip(Tail(s)) ELSE s

RECURSIVE RStrip(_)
RStrip(s) == IF s # <<>> /\ s[Len(s)] = Blank
             THEN RStrip(SubSeq(s, 1, Len(s) - 1))
             ELSE s

Strip(s) == RStrip(LStrip(s))

\* mutant of Replace: only the first occurrence of c is deleted
ReplaceFirst(s, c) ==
    IF \E k \in 1..Len(s) : s[k] = c
    THEN LET k == CHOOSE i \in 1..Len(s) : s[i] = c /\ \A j \in 1..(i - 1) : s[j] # c
         IN  SubSeq(s, 1, k - 1) \o SubSeq(s, k + 1, Len(s))
    ELSE s

\* str.replace(c, ""): delete every occurrence of the character c
Replace(s, c) == SelectSeq(s, LAMBDA x : x # c)

normalize_event_name(name) ==
    Replace(Replace(Replace(Replace(Strip(Lower(name)), "?"), "!"), "."), ",")

-----------------------------------------------------------------------------
(* similarity: difflib.SequenceMatcher(None, a, b).ratio().  Positions are  *)
(* 1-based and ranges are half open, lo..hi-1, as in difflib.  The autojunk *)
(* heuristic only acts on strings of 200 or more characters and is left     *)
(* out.                                                                     *)

\* length of the common run of a and b that starts at a[i], b[j]
RECURSIVE RunFrom(_, _, _, _, _, _)
RunFrom(a, b, i, j, ahi, bhi) ==
    IF i < ahi /\ j < bhi /\ a[i] = b[j]
    THEN 1 + RunFrom(a, b, i + 1, j + 1, ahi, bhi)
    ELSE 0

\* find_longest_match: the longest block, the one starting earliest in a,
\* and of those the one starting earliest in b
find_longest_match(a, b, alo, ahi, blo, bhi) ==
    LET starts == (alo..(ahi - 1)) \X (blo..(bhi - 1))
        len(p) == RunFrom(a, b, p[1], p[2], ahi, bhi)
        cands == {p \in starts : len(p) > 0 /\ \A q \in starts : len(q) <= len(p)}
    IN  IF cands = {}
        THEN [i |-> alo, j |-> blo, size |-> 0]
        ELSE LET p == CHOOSE c \in cands :
                        \A q \in cands : c[1] < q[1] \/ (c[1] = q[1] /\ c[2] <= q[2])
             IN  [i |-> p[1], j |-> p[2], size |-> len(p)]

\* get_matching_blocks: total size of the blocks found by splitting around
\* the longest match and recursing to its left and to its right
RECURSIVE MatchedChars(_, _, _, _, _, _)
MatchedChars(a, b, alo, ahi, blo, bhi) ==
    LET m == find_longest_match(a, b, alo, ahi, blo, bhi)
    IN  IF m.size = 0
        THEN 0
        ELSE m.size
             + (IF alo < m.i /\ blo < m.j
                THEN MatchedChars(a, b, alo, m.i, blo, m.j)
                ELSE 0)
             + (IF m.i + m.size < ahi /\ m.j + m.size < bhi
                THEN MatchedChars(a, b, m.i + m.size, ahi, m.j + m.size, bhi)
                ELSE 0)

\* mutant of similarity: quick_ratio(), which counts the characters the two
\* strings have in common whatever their order
similarity_quick_ratio(a, b) ==
    LET count(x, c) == Cardinality({k \in 1..Len(x) : x[k] = c})
        chars == {a[k] : k \in 1..Len(a)}
        Min(m, n) == IF m < n THEN m ELSE n
        RECURSIVE Common(_)
        Common(C) == IF C = {}
                     THEN 0
                     ELSE LET c == CHOOSE x \in C : TRUE
                          IN  Min(count(a, c), count(b, c)) + Common(C \ {c})
    IN  IF Len(a) + Len(b) # 0
        THEN Rat(2 * Common(chars), Len(a) + Len(b))
        ELSE One

\* ratio(): 2.0 * matches / length, and 1.0 when both strings are empty
similarity(a, b) ==
    LET length == Len(a) + Len(b)
    IN  IF length # 0
        THEN Rat(2 * MatchedChars(a, b, 1, Len(a) + 1, 1, Len(b) + 1), length)
        ELSE One

-----------------------------------------------------------------------------
(* find_matching_events *)

\* dict.get(key, default)
Get(rec, key, default) == IF key \in DOMAIN rec THEN rec[key] ELSE default

\* mutant of EventMatch: the match is named after the Kalshi record
EventMatchKalshiName(poly, kal, score) ==
    [polymarket |-> poly,
     kalshi |-> kal,
     similarity |-> score,
     event_name |-> Get(kal, "event_name", <<>>)]

EventMatch(poly, kal, score) ==
    [polymarket |-> poly, kalshi |-> kal, similarity |-> score,
     event_name |-> Get(poly, "event_name", <<>>)]

\* mutant of Crosses: the score has to exceed the threshold
CrossesStrict(score, threshold) == Lt(threshold, score)

\* the test of line 76
Crosses(score, threshold) == Le(threshold, score)

\* mutant of KalshiLoop: the loop stops at the first Kalshi record that
\* crosses the threshold (a best-match-only reduction)
RECURSIVE KalshiLoopFirstOnly(_, _, _, _, _)
KalshiLoopFirstOnly(poly, poly_name, kalshi_markets, j, threshold) ==
    IF j > Len(kalshi_markets)
    THEN <<>>
    ELSE LET kal == kalshi_markets[j]
             kal_name == normalize_event_name(Get(kal, "event_name", <<>>))
             rest == KalshiLoopFirstOnly(poly, poly_name, kalshi_markets, j + 1, threshold)
         IN  IF kal_name = <<>>
             THEN rest
             ELSE IF Crosses(similarity(poly_name, kal_name), threshold)
                  THEN <<EventMatch(poly, kal, similarity(poly_name, kal_name))>>
                  ELSE rest

\* the inner loop over kalshi_markets, from position j on
RECURSIVE KalshiLoop(_, _, _, _, _)
KalshiLoop(poly, poly_name, kalshi_markets, j, threshold) ==
    IF j > Len(kalshi_markets)
    THEN <<>>
    ELSE LET kal == kalshi_markets[j]
             kal_name == normalize_event_name(Get(kal, "event_name", <<>>))
             rest == KalshiLoop(poly, poly_name, kalshi_markets, j + 1, threshold)
         IN  IF kal_name = <<>>
             THEN rest
             ELSE IF Crosses(similarity(poly_name, kal_name), threshold)
                  THEN <<EventMatch(poly, kal, similarity(poly_name, kal_name))>> \o rest
                  ELSE rest

\* mutant of PolyLoop: a Polymarket record with an empty name ends the loop
\* (break instead of continue)
RECURSIVE PolyLoopBreak(_, _, _, _)
PolyLoopBreak(poly_markets, kalshi_markets, i, threshold) ==
    IF i > Len(poly_markets)
    THEN <<>>
    ELSE LET poly == poly_markets[i]
             poly_name == normalize_event_name(Get(poly, "event_name", <<>>))
             rest == PolyLoopBreak(poly_markets, kalshi_markets, i + 1, threshold)
         IN  IF poly_name = <<>>
             THEN <<>>
             ELSE KalshiLoop(poly, poly_name, kalshi_markets, 1, threshold) \o rest

\* the outer loop over poly_markets, from position i on
RECURSIVE PolyLoop(_, _, _, _)
PolyLoop(poly_markets, kalshi_markets, i, threshold) ==
    IF i > Len(poly_markets)
    THEN <<>>
    ELSE LET poly == poly_markets[i]
             poly_name == normalize_event_name(Get(poly, "event_name", <<>>))
             rest == PolyLoop(poly_markets, kalshi_markets, i + 1, threshold)
         IN  IF poly_name = <<>>
             THEN rest
             ELSE KalshiLoop(poly, poly_name, kalshi_markets, 1, threshold) \o rest

\* mutant of find_matching_events: a threshold above 1.0 is taken as 1.0
find_matching_events_clamped(poly_markets, kalshi_markets, threshold) ==
    PolyLoop(poly_markets, kalshi_markets, 1, IF Lt(One, threshold) THEN One ELSE threshold)

\* mutant of find_matching_events: each match is put at the front of the
\* list (matches.insert(0, ...))
find_matching_events_prepending(poly_markets, kalshi_markets, threshold) ==
    LET found == PolyLoop(poly_markets, kalshi_markets, 1, threshold)
    IN  [i \in 1..Len(found) |-> found[Len(found) + 1 - i]]

find_matching_events(poly_markets, kalshi_markets, threshold) ==
    PolyLoop(poly_markets, kalshi_markets, 1, threshold)

-----------------------------------------------------------------------------
(* calculate_arbitrage.  pf and kf are the globals POLYMARKET_FEE and       *)
(* KALSHI_FEE the function reads.                                          *)

StrategyA == "Buy Polymarket YES + Buy Kalshi NO"
StrategyB == "Buy Polymarket NO + Buy Kalshi YES"
SpreadPoly == "Buy Polymarket YES vs Kalshi YES (spread)"
SpreadKalshi == "Buy Kalshi YES vs Polymarket YES (spread)"

\* mutant of CrossCost: each venue's price is charged the other venue's fee
CrossCostSwappedFees(poly_price, kalshi_price, pf, kf) ==
    Add(Mul(poly_price, Add(One, kf)), Mul(kalshi_price, Add(One, pf)))

\* cost of buying one leg on each venue, fees included (lines 105 and 119)
CrossCost(poly_price, kalshi_price, pf, kf) ==
    Add(Mul(poly_price, Add(One, pf)), Mul(kalshi_price, Add(One, kf)))

\* mutant of CrossOutcome: the lower bound 0 < cost is not tested
CrossOutcomeNoLowerBound(strategy, cost) ==
    IF Lt(cost, One)
    THEN <<[strategy |-> strategy,
            theoretical_cost |-> cost,
            theoretical_return |-> One,
            theoretical_profit |-> Sub(One, cost),
            profit_pct |-> IF Truthy(cost)
                           THEN Mul(Div(Sub(One, cost), cost), Hundred)
                           ELSE Zero]>>
    ELSE <<>>

\* lines 106-116 and 120-130
CrossOutcome(strategy, cost) ==
    IF Lt(Zero, cost) /\ Lt(cost, One)
    THEN LET profit == Sub(One, cost)
         IN  <<[strategy |-> strategy,
                theoretical_cost |-> cost,
                theoretical_return |-> One,
                theoretical_profit |-> profit,
                profit_pct |-> IF Truthy(cost)
                               THEN Mul(Div(profit, cost), Hundred)
                               ELSE Zero]>>
    ELSE <<>>

\* mutant of SpreadProfit: the Polymarket fee is charged on the bought side
\* and the Kalshi fee on the sold side, whichever venue that is
SpreadProfitSideFees(buy, sell, poly_yes, kalshi_yes, pf, kf) ==
    Sub(Sub(Sub(sell, buy), Mul(buy, pf)), Mul(sell, kf))

\* profit of a spread: each venue's fee is charged on that venue's own YES
\* price (lines 138 and 152)
SpreadProfit(buy, sell, poly_yes, kalshi_yes, pf, kf) ==
    Sub(Sub(Sub(sell, buy), Mul(poly_yes, pf)), Mul(kalshi_yes, kf))

\* the price test of lines 137 and 151
SpreadOpen(buy, sell, pf, kf) == Lt(buy, Mul(sell, Sub(Sub(One, kf), pf)))

\* mutant of Spread: profit_pct is left as a fraction, not multiplied by 100
SpreadPctAsFraction(strategy, buy, sell, poly_yes, kalshi_yes, pf, kf) ==
    IF SpreadOpen(buy, sell, pf, kf)
    THEN LET profit == SpreadProfit(buy, sell, poly_yes, kalshi_yes, pf, kf)
         IN  IF Lt(Zero, profit)
             THEN <<[strategy |-> strategy,
                     buy_price |-> buy,
                     sell_price |-> sell,
                     theoretical_profit |-> profit,
                     profit_pct |-> IF Truthy(buy) THEN Div(profit, buy) ELSE Zero]>>
             ELSE <<>>
    ELSE <<>>

\* lines 137-148 and 151-162
Spread(strategy, buy, sell, poly_yes, kalshi_yes, pf, kf) ==
    IF SpreadOpen(buy, sell, pf, kf)
    THEN LET profit == SpreadProfit(buy, sell, poly_yes, kalshi_yes, pf, kf)
         IN  IF Lt(Zero, profit)
             THEN <<[strategy |-> strategy,
                     buy_price |-> buy,
                     sell_price |-> sell,
                     theoretical_profit |-> profit,
                     profit_pct |-> IF Truthy(buy)
                                    THEN Mul(Div(profit, buy), Hundred)
                                    ELSE Zero]>>
             ELSE <<>>
    ELSE <<>>

\* mutant of SpreadGuard: the spreads are looked at whatever the YES prices
SpreadGuardNone(poly_yes, kalshi_yes) == TRUE

\* the guard of line 135
SpreadGuard(poly_yes, kalshi_yes) == Lt(Zero, poly_yes) /\ Lt(Zero, kalshi_yes)

\* mutant of calculate_arbitrage: the spread block stands before the two
\* cross-outcome blocks
calculate_arbitrage_spreads_first(poly_yes, poly_no, kalshi_yes, kalshi_no, pf, kf) ==
    (IF SpreadGuard(poly_yes, kalshi_yes)
     THEN Spread(SpreadPoly, poly_yes, kalshi_yes, poly_yes, kalshi_yes, pf, kf)
          \o Spread(SpreadKalshi, kalshi_yes, poly_yes, poly_yes, kalshi_yes, pf, kf)
     ELSE <<>>)
    \o CrossOutcome(StrategyA, CrossCost(poly_yes, kalshi_no, pf, kf))
    \o CrossOutcome(StrategyB, CrossCost(poly_no, kalshi_yes, pf, kf))

\* lines 102-164
calculate_arbitrage(poly_yes, poly_no, kalshi_yes, kalshi_no, pf, kf) ==
    CrossOutcome(StrategyA, CrossCost(poly_yes, kalshi_no, pf, kf))
    \o CrossOutcome(StrategyB, CrossCost(poly_no, kalshi_yes, pf, kf))
    \o (IF SpreadGuard(poly_yes, kalshi_yes)
        THEN Spread(SpreadPoly, poly_yes, kalshi_yes, poly_yes, kalshi_yes, pf, kf)
             \o Spread(SpreadKalshi, kalshi_yes, poly_yes, poly_yes, kalshi_yes, pf, kf)
        ELSE <<>>)

-----------------------------------------------------------------------------
(* detect_arbitrage *)

\* a price value that float() does not accept, such as the string "n/a"; it
\* is truthy, so "v or 0" hands it to float(), which raises ValueError
Malformed == [n |-> 0, d |-> 0]

\* float(v or 0): a falsy value becomes 0.0
FloatOrZero(v) == IF Truthy(v) THEN v ELSE Zero

\* float(v or 0) raises
FloatRaises(v) == v = Malformed

\* lines 179-180
PolyYes(poly) == FloatOrZero(Get(poly, "yes_price", Zero))
PolyNo(poly) == FloatOrZero(Get(poly, "no_price", Zero))

\* mutant of KalYes: yes_price is also taken when yes_mid is there but 0
\* (kal.get("yes_mid") or kal.get("yes_price", 0))
KalYesMidOrPrice(kal) ==
    FloatOrZero(IF Truthy(Get(kal, "yes_mid", Zero))
                THEN kal.yes_mid
                ELSE Get(kal, "yes_price", Zero))

\* lines 183-184: yes_mid/no_mid, falling back to yes_price/no_price
KalYes(kal) == FloatOrZero(Get(kal, "yes_mid", Get(kal, "yes_price", Zero)))
KalNo(kal) == FloatOrZero(Get(kal, "no_mid", Get(kal, "no_price", Zero)))

\* lines 179-184 raise for the match: one of the four values read is not a
\* number
Raises(match) ==
    \/ FloatRaises(Get(match.polymarket, "yes_price", Zero))
    \/ FloatRaises(Get(match.polymarket, "no_price", Zero))
    \/ FloatRaises(Get(match.kalshi, "yes_mid", Get(match.kalshi, "yes_price", Zero)))
    \/ FloatRaises(Get(match.kalshi, "no_mid", Get(match.kalshi, "no_price", Zero)))

\* mutant of Usable: only the two YES prices are tested
UsableYesOnly(match) ==
    /\ Truthy(PolyYes(match.polymarket))
    /\ Truthy(KalYes(match.kalshi))

\* the test of line 186, negated: all four prices are truthy
Usable(match) ==
    /\ Truthy(PolyYes(match.polymarket))
    /\ Truthy(PolyNo(match.polymarket))
    /\ Truthy(KalYes(match.kalshi))
    /\ Truthy(KalNo(match.kalshi))

\* dict.update: the keys of extra are added to (or replaced in) opp
Update(opp, extra) ==
    [k \in DOMAIN opp \cup DOMAIN extra |->
        IF k \in DOMAIN extra THEN extra[k] ELSE opp[k]]

\* lines 191-204: one row per opportunity of the match
RowsOf(match, pf, kf) ==
    LET poly_yes == PolyYes(match.polymarket)
        poly_no == PolyNo(match.polymarket)
        kal_yes == KalYes(match.kalshi)
        kal_no == KalNo(match.kalshi)
        opportunities == calculate_arbitrage(poly_yes, poly_no, kal_yes, kal_no, pf, kf)
    IN  [k \in 1..Len(opportunities) |->
            Update(opportunities[k],
                   [event_name |-> Get(match, "event_name", <<>>),
                    match_similarity |-> Get(match, "similarity", Zero),
                    polymarket_yes |-> poly_yes,
                    polymarket_no |-> poly_no,
                    kalshi_yes |-> kal_yes,
                    kalshi_no |-> kal_no,
                    polymarket_fee |-> pf,
                    kalshi_fee |-> kf])]

\* the loop of lines 174-204 over matches, from position i on
RECURSIVE CollectRows(_, _, _, _)
CollectRows(ms, i, pf, kf) ==
    IF i > Len(ms)
    THEN <<>>
    ELSE IF Usable(ms[i])
         THEN RowsOf(ms[i], pf, kf) \o CollectRows(ms, i + 1, pf, kf)
         ELSE CollectRows(ms, i + 1, pf, kf)

\* pd.DataFrame(all_rows): the rows under the index labels 0, 1, 2, ...
DataFrame(rows) == [k \in 1..Len(rows) |-> [index |-> k - 1, row |-> rows[k]]]

\* mutant of SortsBefore: ascending order
SortsBeforeAscending(x, y) == Le(x.row.profit_pct, y.row.profit_pct)

\* the order test of sort_values("profit_pct", ascending=False): x may stand
\* before y
SortsBefore(x, y) == Le(y.row.profit_pct, x.row.profit_pct)

\* sort_values with the default kind="quicksort", which pandas documents as
\* not stable: every arrangement of the frame that is ordered by the key is
\* a possible result.  Orderings(frame, I) is the set of such arrangements
\* of the entries at the positions I.
RECURSIVE Orderings(_, _)
Orderings(frame, I) ==
    IF I = {}
    THEN {<<>>}
    ELSE LET first == {i \in I : \A j \in I : SortsBefore(frame[i], frame[j])}
         IN  UNION {{<<frame[i]>> \o t : t \in Orderings(frame, I \ {i})} : i \in first}

\* mutant of sort_values: the sorted frame is cut to its first five rows
sort_values_head(frame) ==
    {SubSeq(t, 1, IF Len(t) < 5 THEN Len(t) ELSE 5) : t \in Orderings(frame, DOMAIN frame)}

sort_values(frame) == Orderings(frame, DOMAIN frame)

-----------------------------------------------------------------------------
(* Inputs *)

\* fee rates the environment can configure; the defaults are POLYMARKET_FEE
\* 0.02 and KALSHI_FEE 0.01
FeeRates == {Rat(0, 1), Rat(1, 100), Rat(2, 100)}

\* configurations of the detection run: the defaults, no fees, and the two
\* extreme thresholds
Configs ==
    {<<Rat(2, 100), Rat(1, 100), Rat(70, 100)>>,
     <<Rat(0, 1), Rat(0, 1), Rat(70, 100)>>,
     <<Rat(2, 100), Rat(1, 100), Rat(0, 1)>>,
     <<Rat(2, 100), Rat(1, 100), Rat(101, 100)>>}

\* Polymarket snapshots as fetch_polymarket.py writes them (the keys the
\* detector reads)
WellFormedPoly ==
    {[event_name |-> <<"A", "b", "?">>, yes_price |-> Rat(40, 100), no_price |-> Rat(55, 100)],
     [event_name |-> <<"a", "c">>,      yes_price |-> Rat(30, 100), no_price |-> Rat(65, 100)],
     [event_name |-> <<"a", "b">>,      yes_price |-> Rat(0, 1),    no_price |-> Rat(55, 100)],
     [event_name |-> <<" ", "?">>,      yes_price |-> Rat(40, 100), no_price |-> Rat(55, 100)]}

\* the records of polymarket_data.json: those above and one whose yes_price
\* is not a number (the file can be written by other means than the fetcher)
PolySnapshots ==
    WellFormedPoly
    \cup {[event_name |-> <<"a", "b", "c">>, yes_price |-> Malformed, no_price |-> Rat(55, 100)]}

\* Kalshi snapshots as fetch_kalshi.py writes them (the keys the detector
\* reads), one of them without a NO price and one without an event_name
KalshiSnapshots ==
    {[event_name |-> <<"a", "b">>,      yes_mid |-> Rat(40, 100), no_mid |-> Rat(45, 100)],
     [event_name |-> <<"a", "b", "c">>, yes_mid |-> Rat(50, 100), no_mid |-> Rat(45, 100)],
     [event_name |-> <<"A", "b">>,      yes_mid |-> Rat(45, 100)],
     [event_name |-> <<"a", "b", ".">>, yes_mid |-> Rat(45, 100), no_mid |-> Rat(60, 100)],
     [yes_mid |-> Rat(40, 100), no_mid |-> Rat(45, 100)]}

\* all lists over S of length at most n that name no snapshot twice: a
\* venue lists a market once (one ticker or condition_id per record)
ListsUpTo(S, n) ==
    {s \in UNION {[1..k -> S] : k \in 0..n} :
        \A i \in DOMAIN s : \A j \in DOMAIN s : s[i] = s[j] => i = j}

\* prices handed to calculate_arbitrage when it is called directly
Prices == {Rat(0, 1), Rat(30, 100), Rat(40, 100), Rat(45, 100), Rat(55, 100), Rat(1, 1)}

\* characters of the strings handed to normalize_event_name directly
Alphabet == {"A", "a", "b", " ", "?", ".", "-"}

NoCall == [fn |-> "none", args |-> <<>>, ret |-> <<>>]

\* both fetch scripts have run and written their files
BothFetched == [polymarket |-> "ok", kalshi |-> "ok"]

\* main has printed no result yet
NoOutput == "none"

\* there is no file arbitrage_opportunities.csv
NoCsv == [columns |-> {}, rows |-> <<>>, exists |-> FALSE]

\* generate_report has not run, or has returned None
NoReport == [total |-> 0]

-----------------------------------------------------------------------------
(* The detection run: main -> detect_arbitrage *)

Init ==
    /\ \E c \in Configs :
          /\ POLYMARKET_FEE = c[1]
          /\ KALSHI_FEE = c[2]
          /\ MATCH_THRESHOLD = c[3]
    /\ polymarket \in ListsUpTo(PolySnapshots, MaxPoly)
    /\ kalshi \in ListsUpTo(KalshiSnapshots, MaxKalshi)
    /\ matches = <<>>
    /\ all_rows = <<>>
    /\ df = <<>>
    /\ pc = "start"
    /\ call = NoCall
    /\ fetched = BothFetched
    /\ out = NoOutput
    /\ csv = NoCsv
    /\ report = NoReport

\* lines 169-170: load the two files and match them
FindMatches ==
    /\ pc = "start"
    /\ matches' = find_matching_events(polymarket, kalshi, MATCH_THRESHOLD)
    /\ pc' = "matched"
    /\ UNCHANGED <<POLYMARKET_FEE, KALSHI_FEE, MATCH_THRESHOLD, polymarket, kalshi,
                   all_rows, df, call, fetched, out,
                   csv, report>>

\* lines 179-184: a price that is not a number makes float() raise
\* ValueError; nothing catches it and the run ends with a traceback
RaiseValueError ==
    /\ pc = "matched"
    /\ \E i \in 1..Len(matches) : Raises(matches[i])
    /\ pc' = "raised"
    /\ UNCHANGED <<POLYMARKET_FEE, KALSHI_FEE, MATCH_THRESHOLD, polymarket, kalshi,
                   matches, all_rows, df, call, fetched, out,
                   csv, report>>

\* mutant of CollectAllRows: the fee fields are written into the matched
\* Polymarket records (which the matches refer to) as well
CollectAllRowsUpdatingInputs ==
    /\ pc = "matched"
    /\ \A i \in 1..Len(matches) : ~ Raises(matches[i])
    /\ all_rows' = CollectRows(matches, 1, POLYMARKET_FEE, KALSHI_FEE)
    /\ polymarket' = [p \in DOMAIN polymarket |->
                         IF \E i \in 1..Len(matches) : matches[i].polymarket = polymarket[p]
                         THEN Update(polymarket[p], [polymarket_fee |-> POLYMARKET_FEE,
                                                     kalshi_fee |-> KALSHI_FEE])
                         ELSE polymarket[p]]
    /\ pc' = "collected"
    /\ UNCHANGED <<POLYMARKET_FEE, KALSHI_FEE, MATCH_THRESHOLD, kalshi,
                   matches, df, call, fetched, out,
                   csv, report>>

\* lines 172-204: evaluate every usable match; the dicts updated at lines
\* 192-203 are the ones calculate_arbitrage has just built, and the input
\* records are only read
CollectAllRows ==
    /\ pc = "matched"
    /\ \A i \in 1..Len(matches) : ~ Raises(matches[i])
    /\ all_rows' = CollectRows(matches, 1, POLYMARKET_FEE, KALSHI_FEE)
    /\ pc' = "collected"
    /\ UNCHANGED <<POLYMARKET_FEE, KALSHI_FEE, MATCH_THRESHOLD, polymarket, kalshi,
                   matches, df, call, fetched, out,
                   csv, report>>

\* lines 206-207: nothing found, an empty DataFrame is returned
ReturnEmpty ==
    /\ pc = "collected"
    /\ all_rows = <<>>
    /\ df' = <<>>
    /\ pc' = "returned"
    /\ UNCHANGED <<POLYMARKET_FEE, KALSHI_FEE, MATCH_THRESHOLD, polymarket, kalshi,
                   matches, all_rows, call, fetched, out,
                   csv, report>>

\* lines 209-212: the rows are put in a DataFrame, sorted and returned
ReturnSorted ==
    /\ pc = "collected"
    /\ all_rows # <<>>
    /\ df' \in sort_values(DataFrame(all_rows))
    /\ pc' = "returned"
    /\ UNCHANGED <<POLYMARKET_FEE, KALSHI_FEE, MATCH_THRESHOLD, polymarket, kalshi,
                   matches, all_rows, call, fetched, out,
                   csv, report>>

\* a cell of a column the row's dict has no key for
NaN == [n |-> 1, d |-> 0]

\* the columns of pd.DataFrame(all_rows): every key of every row
Columns(frame) == UNION {DOMAIN frame[k].row : k \in DOMAIN frame}

\* df.to_csv(OUT_CSV, index=False), line 224: a header of the columns and
\* one line per row in the frame's order, without the index; a missing
\* cell is written empty.  Floats are written by repr and names as they
\* are, so the cells stand for the values themselves.
to_csv(frame) ==
    [columns |-> Columns(frame),
     rows |-> [k \in DOMAIN frame |->
                  [c \in Columns(frame) |->
                      IF c \in DOMAIN frame[k].row THEN frame[k].row[c] ELSE NaN]],
     exists |-> TRUE]

NoCandidates == "No candidate opportunities found."
FoundCandidates == "Found candidates. Saved to arbitrage_opportunities.csv"

\* mutant of Report: the CSV is written whatever the frame holds
ReportAlwaysWriting ==
    /\ pc = "returned"
    /\ out' = IF df = <<>> THEN NoCandidates ELSE FoundCandidates
    /\ csv' = to_csv(df)
    /\ pc' = "done"
    /\ UNCHANGED <<POLYMARKET_FEE, KALSHI_FEE, MATCH_THRESHOLD, polymarket, kalshi,
                   matches, all_rows, df, call, fetched, report>>

\* main, lines 218-225: report what detect_arbitrage returned; the CSV is
\* written only past the early return of line 222
Report ==
    /\ pc = "returned"
    /\ out' = IF df = <<>> THEN NoCandidates ELSE FoundCandidates
    /\ csv' = IF df = <<>> THEN csv ELSE to_csv(df)
    /\ pc' = "done"
    /\ UNCHANGED <<POLYMARKET_FEE, KALSHI_FEE, MATCH_THRESHOLD, polymarket, kalshi,
                   matches, all_rows, df, call, fetched, report>>

Next ==
    \/ FindMatches
    \/ RaiseValueError
    \/ CollectAllRows
    \/ ReturnEmpty
    \/ ReturnSorted
    \/ Report

Spec == Init /\ [][Next]_vars

------------------------------------------------------------------------------
(* The script run twice on the same files and environment *)

\* the script is started a second time: main reads the same two files and
\* calls detect_arbitrage again; the first run's DataFrame is kept in call
\* for comparison
RunAgain ==
    /\ pc = "done"
    /\ call = NoCall
    /\ call' = [fn |-> "detect_arbitrage", args |-> <<polymarket, kalshi>>, ret |-> df]
    /\ matches' = <<>>
    /\ all_rows' = <<>>
    /\ df' = <<>>
    /\ out' = NoOutput
    /\ pc' = "start"
    /\ UNCHANGED <<POLYMARKET_FEE, KALSHI_FEE, MATCH_THRESHOLD, polymarket, kalshi,
                   fetched, csv, report>>

NextRerun ==
    \/ FindMatches
    \/ RaiseValueError
    \/ CollectAllRows
    \/ ReturnEmpty
    \/ ReturnSorted
    \/ Report
    \/ RunAgain

SpecRerun == Init /\ [][NextRerun]_vars

------------------------------------------------------------------------------
(* The detection run over Kalshi records of either format: those          *)
(* get_kalshi_data builds from the venue's quotes, and records that carry  *)
(* yes_price/no_price, for which lines 183-184 keep a fallback             *)

\* fetch_kalshi.py lines 68-71: a quote in cents, missing or null taken as
\* 0, in dollars
Dollars(m, key) == Rat(IF Get(m, key, 0) = 0 THEN 0 ELSE m[key], 100)

\* fetch_kalshi.py lines 73-74: the midpoint if both sides are quoted,
\* else 0.0
Midpoint(bid, ask) ==
    IF Truthy(bid) /\ Truthy(ask) THEN Div(Add(bid, ask), Rat(2, 1)) ELSE Zero

\* fetch_kalshi.py lines 76-92: the record built for one market (the keys
\* that carry the name and the quotes)
KalshiRecord(m) ==
    LET yes_bid == Dollars(m, "yes_bid")
        yes_ask == Dollars(m, "yes_ask")
        no_bid == Dollars(m, "no_bid")
        no_ask == Dollars(m, "no_ask")
    IN  [event_name |-> Get(m, "title", <<"U", "n", "k", "n", "o", "w", "n">>),
         yes_bid |-> yes_bid,
         yes_ask |-> yes_ask,
         no_bid |-> no_bid,
         no_ask |-> no_ask,
         yes_mid |-> Midpoint(yes_bid, yes_ask),
         no_mid |-> Midpoint(no_bid, no_ask)]

\* markets as the venue lists them, quotes in cents; a side that is not
\* quoted is 0
RawKalshi ==
    [title : {<<"a", "b">>}, ticker : {"AB"},
     yes_bid : {0, 40}, yes_ask : {0, 50}, no_bid : {0, 50}, no_ask : {0, 60}]

\* records with a name and any of the four price keys, a mid being 0 or a
\* price
PriceKeys == {"yes_mid", "no_mid", "yes_price", "no_price"}

KeyedKalshi ==
    UNION {{[k \in keys \cup {"event_name"} |->
                IF k = "event_name" THEN <<"a", "b">>
                ELSE IF k = "yes_mid" THEN ym
                ELSE IF k = "no_mid" THEN nm
                ELSE IF k = "yes_price" THEN Rat(40, 100)
                ELSE Rat(45, 100)] :
             ym \in {Zero, Rat(45, 100)}, nm \in {Zero, Rat(60, 100)}} :
           keys \in SUBSET PriceKeys}

QuotedKalshi == {KalshiRecord(m) : m \in RawKalshi} \cup KeyedKalshi

InitQuotes ==
    /\ \E c \in Configs :
          /\ c[3] = Rat(70, 100)
          /\ POLYMARKET_FEE = c[1]
          /\ KALSHI_FEE = c[2]
          /\ MATCH_THRESHOLD = c[3]
    /\ polymarket \in ListsUpTo(WellFormedPoly, 1)
    /\ kalshi \in ListsUpTo(QuotedKalshi, MaxQuotes)
    /\ matches = <<>>
    /\ all_rows = <<>>
    /\ df = <<>>
    /\ pc = "start"
    /\ call = NoCall
    /\ fetched = BothFetched
    /\ out = NoOutput
    /\ csv = NoCsv
    /\ report = NoReport

\* every price is a number, so lines 179-184 cannot raise here
NextQuotes ==
    \/ FindMatches
    \/ CollectAllRows
    \/ ReturnEmpty
    \/ ReturnSorted
    \/ Report

SpecQuotes == InitQuotes /\ [][NextQuotes]_vars

------------------------------------------------------------------------------
(* The two fetch scripts followed by the detection run *)

\* neither fetch script has run yet
FetchPending == [polymarket |-> "pending", kalshi |-> "pending"]

\* records as get_kalshi_data builds them: event_name, yes_mid and no_mid
\* are always present
FetchedKalshi ==
    {k \in KalshiSnapshots : {"event_name", "yes_mid", "no_mid"} \subseteq DOMAIN k}

\* detection starts once both files have been written
AfterFetch(other) == IF other = "pending" THEN "fetching" ELSE "start"

InitFetch ==
    /\ \E c \in Configs :
          /\ POLYMARKET_FEE = c[1]
          /\ KALSHI_FEE = c[2]
          /\ MATCH_THRESHOLD = c[3]
    /\ polymarket = <<>>
    /\ kalshi = <<>>
    /\ matches = <<>>
    /\ all_rows = <<>>
    /\ df = <<>>
    /\ pc = "fetching"
    /\ call = NoCall
    /\ fetched = FetchPending
    /\ out = NoOutput
    /\ csv = NoCsv
    /\ report = NoReport

\* fetch_polymarket.py: the venue answers; the records with two float
\* prices are written to polymarket_data.json
FetchPolymarketOk ==
    /\ pc = "fetching"
    /\ fetched.polymarket = "pending"
    /\ polymarket' \in ListsUpTo(WellFormedPoly, MaxPoly)
    /\ fetched' = [fetched EXCEPT !.polymarket = "ok"]
    /\ pc' = AfterFetch(fetched.kalshi)
    /\ UNCHANGED <<POLYMARKET_FEE, KALSHI_FEE, MATCH_THRESHOLD, kalshi,
                   matches, all_rows, df, call, out,
                   csv, report>>

\* fetch_polymarket.py: requests raises RequestException (venue unreachable,
\* HTTP error status); fetch_polymarket_markets prints the error and returns
\* [], and main writes [] to polymarket_data.json
FetchPolymarketFail ==
    /\ pc = "fetching"
    /\ fetched.polymarket = "pending"
    /\ polymarket' = <<>>
    /\ fetched' = [fetched EXCEPT !.polymarket = "failed"]
    /\ pc' = AfterFetch(fetched.kalshi)
    /\ UNCHANGED <<POLYMARKET_FEE, KALSHI_FEE, MATCH_THRESHOLD, kalshi,
                   matches, all_rows, df, call, out,
                   csv, report>>

\* fetch_kalshi.py: the venue answers; the records are written to
\* kalshi_data.json
FetchKalshiOk ==
    /\ pc = "fetching"
    /\ fetched.kalshi = "pending"
    /\ kalshi' \in ListsUpTo(FetchedKalshi, MaxKalshi)
    /\ fetched' = [fetched EXCEPT !.kalshi = "ok"]
    /\ pc' = AfterFetch(fetched.polymarket)
    /\ UNCHANGED <<POLYMARKET_FEE, KALSHI_FEE, MATCH_THRESHOLD, polymarket,
                   matches, all_rows, df, call, out,
                   csv, report>>

\* fetch_kalshi.py: requests raises RequestException; fetch_kalshi_markets
\* prints the error and returns [], and main writes [] to kalshi_data.json
FetchKalshiFail ==
    /\ pc = "fetching"
    /\ fetched.kalshi = "pending"
    /\ kalshi' = <<>>
    /\ fetched' = [fetched EXCEPT !.kalshi = "failed"]
    /\ pc' = AfterFetch(fetched.polymarket)
    /\ UNCHANGED <<POLYMARKET_FEE, KALSHI_FEE, MATCH_THRESHOLD, polymarket,
                   matches, all_rows, df, call, out,
                   csv, report>>

\* fetched records carry float prices, so lines 179-184 cannot raise here
NextFetch ==
    \/ FetchPolymarketOk
    \/ FetchPolymarketFail
    \/ FetchKalshiOk
    \/ FetchKalshiFail
    \/ FindMatches
    \/ CollectAllRows
    \/ ReturnEmpty
    \/ ReturnSorted
    \/ Report

SpecFetch == InitFetch /\ [][NextFetch]_vars

------------------------------------------------------------------------------
(* Detection runs on changing snapshot files, followed by                  *)
(* generate_report.py                                                      *)

\* pd.read_csv(csv_path): the lines of the file as a frame with a fresh
\* index; an empty cell is read as NaN
read_csv(file) == [k \in DOMAIN file.rows |-> [index |-> k - 1, row |-> file.rows[k]]]

\* long division of r/d continued for k more decimal digits after the
\* quotient q: <<quotient, remainder>>
RECURSIVE Decimals(_, _, _, _)
Decimals(q, r, d, k) ==
    IF k = 0 THEN <<q, r>> ELSE Decimals(q * 10 + (r * 10) \div d, (r * 10) % d, d, k - 1)

\* f"{x:.2f}" and f"{x:.4f}": x rounded to the given number of decimal
\* digits, ties to even
Fixed(x, digits) ==
    LET t == Decimals(Abs(x.n) \div x.d, Abs(x.n) % x.d, x.d, digits)
        up == 2 * t[2] > x.d \/ (2 * t[2] = x.d /\ t[1] % 2 = 1)
        m == IF up THEN t[1] + 1 ELSE t[1]
    IN  Rat(IF x.n < 0 THEN -m ELSE m, 10 ^ digits)

\* generate_report.py line 64: names longer than 40 characters are cut
\* and marked
Shorten(name) ==
    IF Len(name) > 40 THEN SubSeq(name, 1, 40) \o <<".", ".", ".">> ELSE name

RECURSIVE SumOf(_, _)
SumOf(frame, k) ==
    IF k = 0 THEN Zero ELSE Add(SumOf(frame, k - 1), frame[k].row.profit_pct)

\* df[profit_pct_col].max()
MaxOf(frame) ==
    LET top == CHOOSE k \in DOMAIN frame :
                   \A l \in DOMAIN frame :
                       Le(frame[l].row.profit_pct, frame[k].row.profit_pct)
    IN  frame[top].row.profit_pct

\* generate_report.py lines 62-69: one table line
TableLine(row) ==
    [event |-> Shorten(row.event_name),
     strategy |-> row.strategy,
     profit |-> Fixed(row.theoretical_profit, 4),
     profit_pct |-> Fixed(row.profit_pct, 2)]

\* generate_report.py lines 17-96 for a CSV that detect_arbitrage.py wrote
\* (it has the columns theoretical_profit and profit_pct): None if the
\* file is missing or has no row, else the summary and the table of the
\* first ten rows by profit_pct.  The frame is sorted as in
\* detect_arbitrage, so rows of equal profit_pct may come in any order;
\* the result is the set of reports that can be written.  The time stamp
\* in the heading is left out.
generate_report(file) ==
    IF ~ file.exists \/ file.rows = <<>>
    THEN {NoReport}
    ELSE LET frame == read_csv(file)
         IN  {[total |-> Len(frame),
               best |-> Fixed(MaxOf(frame), 2),
               average |-> Fixed(Div(SumOf(frame, Len(frame)), Rat(Len(frame), 1)), 2),
               table |-> [k \in 1..(IF Len(sorted) < 10 THEN Len(sorted) ELSE 10) |->
                             TableLine(sorted[k].row)]] :
              sorted \in sort_values(frame)}

\* the runs are made without fees: the profit_pct values then have small
\* denominators and their exact sum stays within the integers
InitReport ==
    /\ \E c \in Configs :
          /\ c[1] = Zero
          /\ c[3] = Rat(70, 100)
          /\ POLYMARKET_FEE = c[1]
          /\ KALSHI_FEE = c[2]
          /\ MATCH_THRESHOLD = c[3]
    /\ polymarket \in ListsUpTo(WellFormedPoly, MaxReportList)
    /\ kalshi \in ListsUpTo(FetchedKalshi, MaxReportList)
    /\ matches = <<>>
    /\ all_rows = <<>>
    /\ df = <<>>
    /\ pc = "start"
    /\ call = NoCall
    /\ fetched = BothFetched
    /\ out = NoOutput
    /\ csv = NoCsv
    /\ report = NoReport

\* the fetch scripts are run again and replace the two JSON files, and
\* detect_arbitrage.py is started on them; the first run's DataFrame is
\* kept in call for comparison
NewSnapshots ==
    /\ pc = "done"
    /\ call = NoCall
    /\ call' = [fn |-> "detect_arbitrage", args |-> <<polymarket, kalshi>>, ret |-> df]
    /\ polymarket' \in ListsUpTo(WellFormedPoly, MaxReportList)
    /\ kalshi' \in ListsUpTo(FetchedKalshi, MaxReportList)
    /\ matches' = <<>>
    /\ all_rows' = <<>>
    /\ df' = <<>>
    /\ out' = NoOutput
    /\ pc' = "start"
    /\ UNCHANGED <<POLYMARKET_FEE, KALSHI_FEE, MATCH_THRESHOLD, fetched, csv, report>>

\* generate_report.py is run on the CSV that is there
GenerateReport ==
    /\ pc = "done"
    /\ report' \in generate_report(csv)
    /\ pc' = "reported"
    /\ UNCHANGED <<POLYMARKET_FEE, KALSHI_FEE, MATCH_THRESHOLD, polymarket, kalshi,
                   matches, all_rows, df, call, fetched, out, csv>>

\* fetched records carry float prices, so lines 179-184 cannot raise here
NextReport ==
    \/ FindMatches
    \/ CollectAllRows
    \/ ReturnEmpty
    \/ ReturnSorted
    \/ Report
    \/ NewSnapshots
    \/ GenerateReport

SpecReport == InitReport /\ [][NextReport]_vars

-----------------------------------------------------------------------------
(* Direct calls of calculate_arbitrage *)

InitEval ==
    /\ POLYMARKET_FEE \in FeeRates
    /\ KALSHI_FEE \in FeeRates
    /\ MATCH_THRESHOLD = Rat(70, 100)
    /\ polymarket = <<>>
    /\ kalshi = <<>>
    /\ matches = <<>>
    /\ all_rows = <<>>
    /\ df = <<>>
    /\ pc = "idle"
    /\ call = NoCall
    /\ fetched = BothFetched
    /\ out = NoOutput
    /\ csv = NoCsv
    /\ report = NoReport

CallCalculateArbitrage ==
    /\ pc = "idle"
    /\ \E poly_yes \in Prices, poly_no \in Prices, kalshi_yes \in Prices, kalshi_no \in Prices :
          call' = [fn |-> "calculate_arbitrage",
                   args |-> <<poly_yes, poly_no, kalshi_yes, kalshi_no>>,
                   ret |-> calculate_arbitrage(poly_yes, poly_no, kalshi_yes, kalshi_no,
                                               POLYMARKET_FEE, KALSHI_FEE)]
    /\ pc' = "called"
    /\ UNCHANGED <<POLYMARKET_FEE, KALSHI_FEE, MATCH_THRESHOLD, polymarket, kalshi,
                   matches, all_rows, df, fetched, out,
                   csv, report>>

NextEval == CallCalculateArbitrage

SpecEval == InitEval /\ [][NextEval]_vars

-----------------------------------------------------------------------------
(* calculate_arbitrage in binary floating point.  A float is a rational    *)
(* with at most MantissaBits significant bits.  Every arithmetic operation *)
(* returns the exact result rounded to the nearest float, ties going to    *)
(* the even mantissa: the rule of IEEE 754 binary64, which Python floats   *)
(* follow with 53 bits.  The exponent is not bounded: prices and fee rates *)
(* are far from overflow and underflow.                                    *)

\* the integer nearest to n/d, the even one when n/d is halfway (n >= 0, d > 0)
NearestEven(n, d) ==
    LET q == n \div d
        r == n % d
    IN  IF 2 * r < d THEN q
        ELSE IF 2 * r > d THEN q + 1
        ELSE IF q % 2 = 0 THEN q ELSE q + 1

\* the float nearest to n/d (n > 0, d > 0): n/d is scaled by a power of two
\* into [2^(MantissaBits-1), 2^MantissaBits), rounded to an integer there and
\* scaled back
RECURSIVE RoundPositive(_, _)
RoundPositive(n, d) ==
    IF n >= d * 2^MantissaBits
    THEN Mul(Rat(2, 1), RoundPositive(n, 2 * d))
    ELSE IF n < d * 2^(MantissaBits - 1)
         THEN Mul(Rat(1, 2), RoundPositive(2 * n, d))
         ELSE Rat(NearestEven(n, d), 1)

\* the float nearest to the rational x
FloatRound(x) ==
    IF x.n = 0 THEN Zero
    ELSE IF x.n < 0 THEN Sub(Zero, RoundPositive(-x.n, x.d))
    ELSE RoundPositive(x.n, x.d)

\* the float operators +, -, * and /
FAdd(x, y) == FloatRound(Add(x, y))
FSub(x, y) == FloatRound(Sub(x, y))
FMul(x, y) == FloatRound(Mul(x, y))
FDiv(x, y) == FloatRound(Div(x, y))

\* the literal 100 of lines 114, 128, 146 and 160, converted to float
FloatHundred == FloatRound(Hundred)

\* lines 105 and 119
FloatCrossCost(poly_price, kalshi_price, pf, kf) ==
    FAdd(FMul(poly_price, FAdd(One, pf)), FMul(kalshi_price, FAdd(One, kf)))

\* lines 106-116 and 120-130
FloatCrossOutcome(strategy, cost) ==
    IF Lt(Zero, cost) /\ Lt(cost, One)
    THEN LET profit == FSub(One, cost)
         IN  <<[strategy |-> strategy,
                theoretical_cost |-> cost,
                theoretical_return |-> One,
                theoretical_profit |-> profit,
                profit_pct |-> IF Truthy(cost)
                               THEN FMul(FDiv(profit, cost), FloatHundred)
                               ELSE Zero]>>
    ELSE <<>>

\* lines 138 and 152, evaluated left to right: the fee term of the venue
\* bought on is subtracted first, then the fee term of the venue sold on
FloatSpreadProfit(buy, sell, buy_fee, sell_fee) ==
    FSub(FSub(FSub(sell, buy), FMul(buy, buy_fee)), FMul(sell, sell_fee))

\* mutant of FloatSpreadOpen: the price test also passes on equality
FloatSpreadOpenNotStrict(buy, sell, pf, kf) ==
    Le(buy, FMul(sell, FSub(FSub(One, kf), pf)))

\* the price test of lines 137 and 151
FloatSpreadOpen(buy, sell, pf, kf) ==
    Lt(buy, FMul(sell, FSub(FSub(One, kf), pf)))

\* lines 137-148 and 151-162
FloatSpread(strategy, buy, sell, buy_fee, sell_fee, pf, kf) ==
    IF FloatSpreadOpen(buy, sell, pf, kf)
    THEN LET profit == FloatSpreadProfit(buy, sell, buy_fee, sell_fee)
         IN  IF Lt(Zero, profit)
             THEN <<[strategy |-> strategy,
                     buy_price |-> buy,
                     sell_price |-> sell,
                     theoretical_profit |-> profit,
                     profit_pct |-> IF Truthy(buy)
                                    THEN FMul(FDiv(profit, buy), FloatHundred)
                                    ELSE Zero]>>
             ELSE <<>>
    ELSE <<>>

\* lines 102-164
calculate_arbitrage_binary(poly_yes, poly_no, kalshi_yes, kalshi_no, pf, kf) ==
    FloatCrossOutcome(StrategyA, FloatCrossCost(poly_yes, kalshi_no, pf, kf))
    \o FloatCrossOutcome(StrategyB, FloatCrossCost(poly_no, kalshi_yes, pf, kf))
    \o (IF SpreadGuard(poly_yes, kalshi_yes)
        THEN FloatSpread(SpreadPoly, poly_yes, kalshi_yes, pf, kf, pf, kf)
             \o FloatSpread(SpreadKalshi, kalshi_yes, poly_yes, kf, pf, pf, kf)
        ELSE <<>>)

\* the floats of [1/4, 1/2]: YES and NO prices of the calls
FloatPrices ==
    {Rat(m, 2^(MantissaBits + 1)) : m \in 2^(MantissaBits - 1) .. 2^MantissaBits}

\* no fee, and the floats of [1/32, 1/16): the fee rates of the environment
FloatFeeRates ==
    {Zero} \cup {Rat(m, 2^(MantissaBits + 4)) :
                    m \in 2^(MantissaBits - 1) .. (2^MantissaBits - 1)}

\* the NO price of the calls: the spreads do not read it
FloatNoPrices == {Rat(1, 4)}

InitFloat ==
    /\ POLYMARKET_FEE \in FloatFeeRates
    /\ KALSHI_FEE \in FloatFeeRates
    /\ MATCH_THRESHOLD = Rat(70, 100)
    /\ polymarket = <<>>
    /\ kalshi = <<>>
    /\ matches = <<>>
    /\ all_rows = <<>>
    /\ df = <<>>
    /\ pc = "idle"
    /\ call = NoCall
    /\ fetched = BothFetched
    /\ out = NoOutput
    /\ csv = NoCsv
    /\ report = NoReport

CallCalculateArbitrageFloat ==
    /\ pc = "idle"
    /\ \E poly_yes \in FloatPrices, poly_no \in FloatNoPrices,
          kalshi_yes \in FloatPrices, kalshi_no \in FloatNoPrices :
          call' = [fn |-> "calculate_arbitrage",
                   args |-> <<poly_yes, poly_no, kalshi_yes, kalshi_no>>,
                   ret |-> calculate_arbitrage_binary(poly_yes, poly_no,
                                                      kalshi_yes, kalshi_no,
                                                      POLYMARKET_FEE, KALSHI_FEE)]
    /\ pc' = "called"
    /\ UNCHANGED <<POLYMARKET_FEE, KALSHI_FEE, MATCH_THRESHOLD, polymarket, kalshi,
                   matches, all_rows, df, fetched, out,
                   csv, report>>

NextFloat == CallCalculateArbitrageFloat

SpecFloat == InitFloat /\ [][NextFloat]_vars

-----------------------------------------------------------------------------
(* Direct calls of normalize_event_name *)

\* the interpreter with the module imported under the default environment
InitCall ==
    /\ POLYMARKET_FEE = Rat(2, 100)
    /\ KALSHI_FEE = Rat(1, 100)
    /\ MATCH_THRESHOLD = Rat(70, 100)
    /\ polymarket = <<>>
    /\ kalshi = <<>>
    /\ matches = <<>>
    /\ all_rows = <<>>
    /\ df = <<>>
    /\ pc = "idle"
    /\ call = NoCall
    /\ fetched = BothFetched
    /\ out = NoOutput
    /\ csv = NoCsv
    /\ report = NoReport

Strings(n) == UNION {[1..k -> Alphabet] : k \in 0..n}

CallNormalize ==
    /\ pc = "idle"
    /\ \E name \in Strings(MaxNameLen) :
          call' = [fn |-> "normalize_event_name",
                   args |-> <<name>>,
                   ret |-> normalize_event_name(name)]
    /\ pc' = "called"
    /\ UNCHANGED <<POLYMARKET_FEE, KALSHI_FEE, MATCH_THRESHOLD, polymarket, kalshi,
                   matches, all_rows, df, fetched, out,
                   csv, report>>

NextNormalize == CallNormalize

SpecNormalize == InitCall /\ [][NextNormalize]_vars

-----------------------------------------------------------------------------
(* Direct calls of similarity, and of find_matching_events on two lists of  *)
(* one record each                                                          *)

\* thresholds the environment can configure; the default is 0.70
Thresholds == {Rat(0, 1), Rat(70, 100), Rat(1, 1), Rat(101, 100)}

SimAlphabet == {"a", "b"}
SimStrings(n) == UNION {[1..k -> SimAlphabet] : k \in 0..n}

InitSimilarity ==
    /\ POLYMARKET_FEE = Rat(2, 100)
    /\ KALSHI_FEE = Rat(1, 100)
    /\ MATCH_THRESHOLD \in Thresholds
    /\ polymarket = <<>>
    /\ kalshi = <<>>
    /\ matches = <<>>
    /\ all_rows = <<>>
    /\ df = <<>>
    /\ pc = "idle"
    /\ call = NoCall
    /\ fetched = BothFetched
    /\ out = NoOutput
    /\ csv = NoCsv
    /\ report = NoReport

CallSimilarity ==
    /\ pc = "idle"
    /\ \E a \in SimStrings(MaxSimLen), b \in SimStrings(MaxSimLen) :
          call' = [fn |-> "similarity", args |-> <<a, b>>, ret |-> similarity(a, b)]
    /\ pc' = "called"
    /\ UNCHANGED <<POLYMARKET_FEE, KALSHI_FEE, MATCH_THRESHOLD, polymarket, kalshi,
                   matches, all_rows, df, fetched, out,
                   csv, report>>

CallFindMatchingEvents ==
    /\ pc = "idle"
    /\ \E a \in SimStrings(MaxSimLen), b \in SimStrings(MaxSimLen) :
          call' = [fn |-> "find_matching_events",
                   args |-> <<a, b>>,
                   ret |-> find_matching_events(<<[event_name |-> a]>>,
                                                <<[event_name |-> b]>>,
                                                MATCH_THRESHOLD)]
    /\ pc' = "called"
    /\ UNCHANGED <<POLYMARKET_FEE, KALSHI_FEE, MATCH_THRESHOLD, polymarket, kalshi,
                   matches, all_rows, df, fetched, out,
                   csv, report>>

NextSimilarity == CallSimilarity \/ CallFindMatchingEvents

SpecSimilarity == InitSimilarity /\ [][NextSimilarity]_vars

-----------------------------------------------------------------------------
(* Properties of calculate_arbitrage, checked on its direct calls          *)
(* (SpecEval).  They are stated in integer arithmetic on hundredths: a     *)
(* price p stands for H(p) cents and a fee f for H(f) per cent, so a cost  *)
(* or profit is a number of 1/10000 dollar.                                *)

H(x) == (x.n * 100) \div x.d

Called(fn) == pc = "called" /\ call.fn = fn

\* the records of the result that carry the given strategy
Emitted(strategy) ==
    {k \in 1..Len(call.ret) : call.ret[k].strategy = strategy}

\* C1, one strategy: a record is returned iff 0 < cost < 1, at most once,
\* with theoretical_cost = cost, theoretical_profit = 1 - cost and
\* profit_pct = profit / cost * 100
CrossOutcomeAsSpecified(strategy, cost) ==
    /\ (Emitted(strategy) # {}) <=> (0 < cost /\ cost < 10000)
    /\ Cardinality(Emitted(strategy)) <= 1
    /\ \A k \in Emitted(strategy) :
          /\ call.ret[k].theoretical_cost = Rat(cost, 10000)
          /\ call.ret[k].theoretical_profit = Rat(10000 - cost, 10000)
          /\ call.ret[k].profit_pct = Rat((10000 - cost) * 100, cost)

\* C1: both cross-outcome strategies are emitted iff 0 < cost < 1, where
\* cost = poly_yes*(1+POLYMARKET_FEE) + kalshi_no*(1+KALSHI_FEE) for
\* strategy 1 and poly_no*(1+POLYMARKET_FEE) + kalshi_yes*(1+KALSHI_FEE)
\* for strategy 2, and the record carries cost, 1 - cost and
\* (1 - cost) / cost * 100
C1_CrossOutcome ==
    Called("calculate_arbitrage") =>
        LET py == H(call.args[1])
            pn == H(call.args[2])
            ky == H(call.args[3])
            kn == H(call.args[4])
            pf == H(POLYMARKET_FEE)
            kf == H(KALSHI_FEE)
        IN  /\ CrossOutcomeAsSpecified(StrategyA, py * (100 + pf) + kn * (100 + kf))
            /\ CrossOutcomeAsSpecified(StrategyB, pn * (100 + pf) + ky * (100 + kf))

\* the example of the specification: a_yes = 0.40, b_no = 0.45, fees 0.02
\* and 0.01 give cost 0.8625 and profit 0.1375
C1_Witness ==
    /\ Called("calculate_arbitrage")
    /\ POLYMARKET_FEE = Rat(2, 100) /\ KALSHI_FEE = Rat(1, 100)
    /\ call.args[1] = Rat(40, 100) /\ call.args[4] = Rat(45, 100)
    /\ \E k \in Emitted(StrategyA) :
          /\ call.ret[k].theoretical_cost = Rat(8625, 10000)
          /\ call.ret[k].theoretical_profit = Rat(1375, 10000)
    /\ Emitted(StrategyB) = {}

\* one spread strategy: a record is returned iff guard holds and
\* buy < sell*(1 - fees) and profit > 0, at most once, with
\* theoretical_profit = profit and profit_pct = profit / buy * 100
SpreadAsSpecified(strategy, guard, buy, sell, profit, pf, kf) ==
    /\ (Emitted(strategy) # {}) <=>
          (guard /\ buy * 100 < sell * (100 - pf - kf) /\ profit > 0)
    /\ Cardinality(Emitted(strategy)) <= 1
    /\ \A k \in Emitted(strategy) :
          /\ call.ret[k].theoretical_profit = Rat(profit, 10000)
          /\ call.ret[k].profit_pct = Rat(profit, buy)

SpreadsAsSpecified(guarded) ==
    LET py == H(call.args[1])
        ky == H(call.args[3])
        pf == H(POLYMARKET_FEE)
        kf == H(KALSHI_FEE)
        guard == IF guarded THEN py > 0 /\ ky > 0 ELSE TRUE
    IN  /\ SpreadAsSpecified(SpreadPoly, guard, py, ky,
                             100 * ky - 100 * py - py * pf - ky * kf, pf, kf)
        /\ SpreadAsSpecified(SpreadKalshi, guard, ky, py,
                             100 * py - 100 * ky - py * pf - ky * kf, pf, kf)

\* C2 as claimed: a spread strategy is emitted iff
\* buy_yes < sell_yes*(1 - a_fee - b_fee) and profit > 0, where
\* profit = sell_yes - buy_yes - a_yes*a_fee - b_yes*b_fee, with
\* theoretical_profit = profit and profit_pct = profit / buy_yes * 100
C2_Original == Called("calculate_arbitrage") => SpreadsAsSpecified(FALSE)

\* C2 amended: a spread strategy is emitted iff both YES prices are > 0 and
\* buy_yes < sell_yes*(1 - a_fee - b_fee) and profit > 0, where
\* profit = sell_yes - buy_yes - a_yes*a_fee - b_yes*b_fee, with
\* theoretical_profit = profit and profit_pct = profit / buy_yes * 100
C2_Spread == Called("calculate_arbitrage") => SpreadsAsSpecified(TRUE)

\* the example of the specification: a_yes = 0.30, b_yes = 0.40, fees 0.02
\* and 0.01 give strategy 3 with profit 0.09 and profit_pct 30
C2_Witness ==
    /\ Called("calculate_arbitrage")
    /\ POLYMARKET_FEE = Rat(2, 100) /\ KALSHI_FEE = Rat(1, 100)
    /\ call.args[1] = Rat(30, 100) /\ call.args[3] = Rat(40, 100)
    /\ \E k \in Emitted(SpreadPoly) :
          /\ call.ret[k].theoretical_profit = Rat(9, 100)
          /\ call.ret[k].profit_pct = Rat(30, 1)
    /\ Emitted(SpreadKalshi) = {}

Positive(x) == x.n > 0
BelowOne(x) == x.n < x.d

\* C3 as claimed: every emitted opportunity, of any of the four strategies,
\* has theoretical_profit > 0 and 0 < theoretical_cost < 1
C3_Original ==
    Called("calculate_arbitrage") =>
        \A k \in 1..Len(call.ret) :
            /\ Positive(call.ret[k].theoretical_profit)
            /\ "theoretical_cost" \in DOMAIN call.ret[k]
            /\ Positive(call.ret[k].theoretical_cost)
            /\ BelowOne(call.ret[k].theoretical_cost)

\* C3 amended: every emitted opportunity has theoretical_profit > 0; every
\* cross-outcome opportunity (strategies 1 and 2) has 0 < theoretical_cost
\* < 1; a spread opportunity (strategies 3 and 4) carries no
\* theoretical_cost at all
C3_EmittedArePositive ==
    Called("calculate_arbitrage") =>
        \A k \in 1..Len(call.ret) :
            /\ Positive(call.ret[k].theoretical_profit)
            /\ call.ret[k].strategy \in {StrategyA, StrategyB} =>
                  /\ "theoretical_cost" \in DOMAIN call.ret[k]
                  /\ Positive(call.ret[k].theoretical_cost)
                  /\ BelowOne(call.ret[k].theoretical_cost)
            /\ call.ret[k].strategy \in {SpreadPoly, SpreadKalshi} =>
                  "theoretical_cost" \notin DOMAIN call.ret[k]

\* a call that emits a cross-outcome and a spread record and drops
\* strategy 2, whose cost is not below 1
C3_Witness ==
    /\ Called("calculate_arbitrage")
    /\ Emitted(StrategyA) # {}
    /\ Emitted(SpreadPoly) # {}
    /\ Emitted(StrategyB) = {}
    /\ ~ BelowOne(CrossCost(call.args[2], call.args[3], POLYMARKET_FEE, KALSHI_FEE))

\* the denominator of a record's profit_pct: the cost for strategies 1 and
\* 2, the bought YES price for strategies 3 and 4
Denominator(opp) ==
    IF opp.strategy \in {StrategyA, StrategyB} THEN opp.theoretical_cost ELSE opp.buy_price

\* C22: a strategy whose profit_pct denominator (cost for strategies 1-2,
\* bought YES price for strategies 3-4) is zero emits nothing, and every
\* emitted record's profit_pct is profit / denominator * 100 over a
\* non-zero denominator, never the placeholder 0.0
C22_DivisionGuard ==
    Called("calculate_arbitrage") =>
        LET py == H(call.args[1])
            pn == H(call.args[2])
            ky == H(call.args[3])
            kn == H(call.args[4])
            pf == H(POLYMARKET_FEE)
            kf == H(KALSHI_FEE)
        IN  /\ py * (100 + pf) + kn * (100 + kf) = 0 => Emitted(StrategyA) = {}
            /\ pn * (100 + pf) + ky * (100 + kf) = 0 => Emitted(StrategyB) = {}
            /\ py = 0 => Emitted(SpreadPoly) = {}
            /\ ky = 0 => Emitted(SpreadKalshi) = {}
            /\ \A k \in 1..Len(call.ret) :
                  /\ Denominator(call.ret[k]) # Zero
                  /\ call.ret[k].profit_pct # Zero
                  /\ call.ret[k].profit_pct =
                        Mul(Div(call.ret[k].theoretical_profit, Denominator(call.ret[k])),
                            Hundred)

\* poly_yes = 0 and kalshi_no = 0: strategy 1 has cost 0 and the spread
\* that buys Polymarket YES has base price 0; neither is emitted, while
\* strategy 2 is
C22_Witness ==
    /\ Called("calculate_arbitrage")
    /\ call.args[1] = Zero
    /\ call.args[4] = Zero
    /\ call.args[3] # Zero
    /\ Emitted(StrategyA) = {}
    /\ Emitted(SpreadPoly) = {}
    /\ Emitted(StrategyB) # {}

\* position of a strategy in the fixed order 1, 2, 3, 4
StrategyNumber(strategy) ==
    CASE strategy = StrategyA -> 1
      [] strategy = StrategyB -> 2
      [] strategy = SpreadPoly -> 3
      [] strategy = SpreadKalshi -> 4

\* C26: with non-negative fees the two spread strategies are never both
\* emitted by one call, a call returns at most 3 records, and the records
\* stand in the order strategy 1, 2, 3, 4
C26_AtMostThreeInOrder ==
    (Called("calculate_arbitrage") /\ POLYMARKET_FEE.n >= 0 /\ KALSHI_FEE.n >= 0) =>
        /\ Emitted(SpreadPoly) = {} \/ Emitted(SpreadKalshi) = {}
        /\ Len(call.ret) <= 3
        /\ \A k \in 1..Len(call.ret), l \in 1..Len(call.ret) :
              k < l => StrategyNumber(call.ret[k].strategy)
                          < StrategyNumber(call.ret[l].strategy)

\* a call that returns three records: both cross-outcome strategies and
\* one spread
C26_Witness ==
    /\ Called("calculate_arbitrage")
    /\ Len(call.ret) = 3
    /\ Emitted(StrategyA) # {}
    /\ Emitted(StrategyB) # {}
    /\ Emitted(SpreadKalshi) # {}

\* C28: every cross-outcome record has theoretical_return = 1.0 and
\* theoretical_cost + theoretical_profit = theoretical_return, and every
\* emitted record of any strategy has profit_pct > 0
C28_ReturnIsCostPlusProfit ==
    Called("calculate_arbitrage") =>
        \A k \in 1..Len(call.ret) :
            /\ Positive(call.ret[k].profit_pct)
            /\ call.ret[k].strategy \in {StrategyA, StrategyB} =>
                  /\ call.ret[k].theoretical_return = One
                  /\ Add(call.ret[k].theoretical_cost, call.ret[k].theoretical_profit)
                        = call.ret[k].theoretical_return

\* a call that emits a cross-outcome record with a cost and a profit that
\* are not both 1/2, next to a spread record
C28_Witness ==
    /\ Called("calculate_arbitrage")
    /\ \E k \in Emitted(StrategyB) :
          /\ call.ret[k].theoretical_cost # call.ret[k].theoretical_profit
          /\ Lt(call.ret[k].theoretical_profit, call.ret[k].theoretical_cost)
    /\ Emitted(SpreadPoly) # {}
    /\ Emitted(StrategyA) = {}

\* C4 as claimed: calculate_arbitrage returns an empty list whenever one of
\* its four price arguments is 0
C4_ZeroPriceReturnsEmpty ==
    Called("calculate_arbitrage") =>
        ((\E a \in 1..4 : call.args[a] = Zero) => call.ret = <<>>)

-----------------------------------------------------------------------------
(* Properties of the detection run (Spec) *)

Matched == pc \in {"matched", "raised", "collected", "returned", "done"}
Collected == pc \in {"collected", "returned", "done"}
Returned == pc \in {"returned", "done"}

\* the four prices detect_arbitrage reads for a match
PricesOf(match) ==
    <<PolyYes(match.polymarket), PolyNo(match.polymarket),
      KalYes(match.kalshi), KalNo(match.kalshi)>>

\* the four prices a row carries
RowPrices(row) ==
    <<row.polymarket_yes, row.polymarket_no, row.kalshi_yes, row.kalshi_no>>

ZeroPriced(match) == \E a \in 1..4 : PricesOf(match)[a] = Zero

\* the opportunities of a match that has no zero price
OpportunitiesOf(match) ==
    calculate_arbitrage(PricesOf(match)[1], PricesOf(match)[2], PricesOf(match)[3],
                        PricesOf(match)[4], POLYMARKET_FEE, KALSHI_FEE)

\* number of rows the matches 1..i are to contribute
RECURSIVE RowsDue(_)
RowsDue(i) ==
    IF i = 0
    THEN 0
    ELSE RowsDue(i - 1)
         + (IF ZeroPriced(matches[i]) THEN 0 ELSE Len(OpportunitiesOf(matches[i])))

\* C5: a matched pair with a YES or NO price of 0 on either venue adds no
\* row (no row carries a zero price and the zero-priced pairs count for
\* nothing in the number of rows), and every other matched pair is still
\* evaluated: each of its opportunities is a row
C5_ZeroPricedPairSkipped ==
    Collected =>
        /\ \A k \in 1..Len(all_rows) : \A a \in 1..4 : RowPrices(all_rows[k])[a] # Zero
        /\ Len(all_rows) = RowsDue(Len(matches))
        /\ \A i \in 1..Len(matches) :
              ~ ZeroPriced(matches[i]) =>
                  \A o \in 1..Len(OpportunitiesOf(matches[i])) :
                      \E k \in 1..Len(all_rows) :
                          /\ all_rows[k].strategy = OpportunitiesOf(matches[i])[o].strategy
                          /\ all_rows[k].profit_pct = OpportunitiesOf(matches[i])[o].profit_pct
                          /\ all_rows[k].event_name = matches[i].event_name
                          /\ RowPrices(all_rows[k]) = PricesOf(matches[i])

\* a run with a zero-priced matched pair that would have had an opportunity
\* and another matched pair whose rows are there
C5_Witness ==
    /\ Collected
    /\ \E i \in 1..Len(matches) :
          ZeroPriced(matches[i]) /\ OpportunitiesOf(matches[i]) # <<>>
    /\ \E i \in 1..Len(matches) : ~ ZeroPriced(matches[i])
    /\ all_rows # <<>>

NameOf(rec) == normalize_event_name(Get(rec, "event_name", <<>>))

\* both normalized names are non-empty and their similarity reaches the
\* threshold
Qualifies(poly, kal) ==
    /\ NameOf(poly) # <<>>
    /\ NameOf(kal) # <<>>
    /\ MATCH_THRESHOLD.n * similarity(NameOf(poly), NameOf(kal)).d
          <= similarity(NameOf(poly), NameOf(kal)).n * MATCH_THRESHOLD.d

QualifyingPairs ==
    {p \in (1..Len(polymarket)) \X (1..Len(kalshi)) :
        Qualifies(polymarket[p[1]], kalshi[p[2]])}

\* C6: there is an EventMatch for a (Polymarket, Kalshi) pair iff both
\* normalized names are non-empty and similarity >= MATCH_THRESHOLD, and
\* there are as many matches as qualifying pairs of positions: nothing is
\* deduplicated or reduced to a best match
C6_MatchIffThreshold ==
    Matched =>
        /\ \A i \in 1..Len(polymarket) : \A j \in 1..Len(kalshi) :
              Qualifies(polymarket[i], kalshi[j]) <=>
                 \E k \in 1..Len(matches) :
                     /\ matches[k].polymarket = polymarket[i]
                     /\ matches[k].kalshi = kalshi[j]
        /\ Len(matches) = Cardinality(QualifyingPairs)

\* at the default threshold one Polymarket record matches two different
\* Kalshi records, and a pair of non-empty names stays below the threshold
C6_Witness ==
    /\ Matched
    /\ MATCH_THRESHOLD = Rat(70, 100)
    /\ \E i \in 1..Len(polymarket) :
          /\ <<i, 1>> \in QualifyingPairs
          /\ <<i, 2>> \in QualifyingPairs
          /\ kalshi[1] # kalshi[2]
    /\ \E i \in 1..Len(polymarket) : \E j \in 1..Len(kalshi) :
          /\ NameOf(polymarket[i]) # <<>>
          /\ NameOf(kalshi[j]) # <<>>
          /\ <<i, j>> \notin QualifyingPairs

\* pairs of positions whose two normalized names are both non-empty
NamedPairs ==
    {p \in (1..Len(polymarket)) \X (1..Len(kalshi)) :
        NameOf(polymarket[p[1]]) # <<>> /\ NameOf(kalshi[p[2]]) # <<>>}

\* C15: with MATCH_THRESHOLD = 1.01 there is no match, and with
\* MATCH_THRESHOLD = 0.0 there is exactly one match for every pair of
\* records whose normalized names are both non-empty, and no other
C15_ThresholdExtremes ==
    Matched =>
        /\ MATCH_THRESHOLD = [n |-> 101, d |-> 100] => matches = <<>>
        /\ MATCH_THRESHOLD = [n |-> 0, d |-> 1] =>
              /\ Len(matches) = Cardinality(NamedPairs)
              /\ \A p \in NamedPairs :
                    Cardinality({k \in 1..Len(matches) :
                                    /\ matches[k].polymarket = polymarket[p[1]]
                                    /\ matches[k].kalshi = kalshi[p[2]]}) = 1

\* at the threshold 0.0 a pair that scores below 0.70 is matched while a
\* record with an empty normalized name is not
C15_Witness ==
    /\ Matched
    /\ MATCH_THRESHOLD = Rat(0, 1)
    /\ \E k \in 1..Len(matches) : Lt(matches[k].similarity, Rat(70, 100))
    /\ Cardinality(NamedPairs) < Len(polymarket) * Len(kalshi)

\* the record has no event_name, or one that normalizes to the empty string
EmptyNamed(rec) ==
    \/ "event_name" \notin DOMAIN rec
    \/ normalize_event_name(rec.event_name) = <<>>

WithoutEmptyNamed(list) == SelectSeq(list, LAMBDA rec : ~ EmptyNamed(rec))

\* C16: a record without event_name or with an empty normalized name is in
\* no match, on either side, and the matches are those of the two lists
\* with such records left out
C16_EmptyNamesSkipped ==
    Matched =>
        /\ \A k \in 1..Len(matches) :
              ~ EmptyNamed(matches[k].polymarket) /\ ~ EmptyNamed(matches[k].kalshi)
        /\ matches = find_matching_events(WithoutEmptyNamed(polymarket),
                                          WithoutEmptyNamed(kalshi), MATCH_THRESHOLD)

\* each list starts with an empty-named record (the Kalshi one has no
\* event_name at all) and the records after them are matched
C16_Witness ==
    /\ Matched
    /\ Len(polymarket) = 2 /\ EmptyNamed(polymarket[1])
    /\ Len(kalshi) = 2 /\ "event_name" \notin DOMAIN kalshi[1]
    /\ Len(matches) = 1
    /\ matches[1].polymarket = polymarket[2]
    /\ matches[1].kalshi = kalshi[2]

\* C17 as claimed: two one-record lists with identical normalized names and
\* prices that meet the emit condition of exactly one strategy give exactly
\* one EventMatch and one row with that strategy's cost, profit and
\* profit_pct. Prices and fees are taken in hundredths, as for C1 and C2.
C17_Original ==
    (/\ Returned
     /\ Len(polymarket) = 1
     /\ Len(kalshi) = 1
     /\ NameOf(polymarket[1]) # <<>>
     /\ NameOf(polymarket[1]) = NameOf(kalshi[1])
     /\ ~Raises([polymarket |-> polymarket[1], kalshi |-> kalshi[1]])) =>
        LET py == H(PolyYes(polymarket[1]))
            pn == H(PolyNo(polymarket[1]))
            ky == H(KalYes(kalshi[1]))
            kn == H(KalNo(kalshi[1]))
            pf == H(POLYMARKET_FEE)
            kf == H(KALSHI_FEE)
            costA == py * (100 + pf) + kn * (100 + kf)
            costB == pn * (100 + pf) + ky * (100 + kf)
            profit3 == 100 * ky - 100 * py - py * pf - ky * kf
            profit4 == 100 * py - 100 * ky - py * pf - ky * kf
            condA == 0 < costA /\ costA < 10000
            condB == 0 < costB /\ costB < 10000
            cond3 == py > 0 /\ ky > 0 /\ py * 100 < ky * (100 - pf - kf) /\ profit3 > 0
            cond4 == py > 0 /\ ky > 0 /\ ky * 100 < py * (100 - pf - kf) /\ profit4 > 0
            met == {c \in {<<1, condA>>, <<2, condB>>, <<3, cond3>>, <<4, cond4>>} : c[2]}
        IN  Cardinality(met) = 1 =>
                /\ Len(matches) = 1
                /\ Len(df) = 1
                /\ condA => /\ df[1].row.strategy = StrategyA
                            /\ df[1].row.theoretical_cost = Rat(costA, 10000)
                            /\ df[1].row.theoretical_profit = Rat(10000 - costA, 10000)
                            /\ df[1].row.profit_pct = Rat((10000 - costA) * 100, costA)
                /\ condB => /\ df[1].row.strategy = StrategyB
                            /\ df[1].row.theoretical_cost = Rat(costB, 10000)
                            /\ df[1].row.theoretical_profit = Rat(10000 - costB, 10000)
                            /\ df[1].row.profit_pct = Rat((10000 - costB) * 100, costB)
                /\ cond3 => /\ df[1].row.strategy = SpreadPoly
                            /\ df[1].row.theoretical_profit = Rat(profit3, 10000)
                            /\ df[1].row.profit_pct = Rat(profit3, py)
                /\ cond4 => /\ df[1].row.strategy = SpreadKalshi
                            /\ df[1].row.theoretical_profit = Rat(profit4, 10000)
                            /\ df[1].row.profit_pct = Rat(profit4, ky)

\* C17 amended: the same (one match, one row with the strategy's values),
\* provided MATCH_THRESHOLD <= 1.0 and none of the four prices is 0
C17_EndToEnd ==
    (/\ Returned
     /\ Len(polymarket) = 1
     /\ Len(kalshi) = 1
     /\ Le(MATCH_THRESHOLD, One)
     /\ \A price \in {PolyYes(polymarket[1]), PolyNo(polymarket[1]),
                       KalYes(kalshi[1]), KalNo(kalshi[1])} : price # Zero) =>
        C17_Original

\* "Ab?" at 0.40/0.55 against "ab." at 0.45/0.60: only the spread that buys
\* Polymarket YES is open, and it is the one row returned
C17_Witness ==
    /\ Returned
    /\ Len(polymarket) = 1 /\ Len(kalshi) = 1
    /\ NameOf(polymarket[1]) # <<>>
    /\ NameOf(polymarket[1]) = NameOf(kalshi[1])
    /\ polymarket[1].event_name # kalshi[1].event_name
    /\ Len(matches) = 1
    /\ Len(df) = 1
    /\ df[1].row.strategy = SpreadPoly

C19_MalformedNotFatal == pc # "raised"

\* C20: after a failed fetch, the detection run never ends in the same
\* "No candidate opportunities found." outcome as for valid data without
\* opportunities
C20_FailureDistinct ==
    (pc = "done" /\ "failed" \in {fetched.polymarket, fetched.kalshi}) =>
        out # NoCandidates

\* C21: when nothing is matched (empty lists, no pair at the threshold) or
\* no matched pair meets an emit condition, detect_arbitrage ends without
\* error and returns an empty result
C21_EmptyIsNormal ==
    (/\ Matched
     /\ \A i \in 1..Len(matches) :
           Raises(matches[i]) \/ OpportunitiesOf(matches[i]) = <<>>) =>
        /\ pc # "raised"
        /\ Returned => df = <<>>

\* the row was evaluated from the pair (a, b): name of a, the pair's
\* similarity, the pair's four prices, the configured fees, and one of the
\* pair's opportunities
RowOfPair(row, a, b) ==
    /\ NameOf(a) # <<>>
    /\ NameOf(b) # <<>>
    /\ row.event_name = a.event_name
    /\ row.match_similarity = similarity(NameOf(a), NameOf(b))
    /\ RowPrices(row) = <<PolyYes(a), PolyNo(a), KalYes(b), KalNo(b)>>
    /\ row.polymarket_fee = POLYMARKET_FEE
    /\ row.kalshi_fee = KALSHI_FEE
    /\ LET opps == calculate_arbitrage(PolyYes(a), PolyNo(a), KalYes(b), KalNo(b),
                                       POLYMARKET_FEE, KALSHI_FEE)
       IN  \E o \in 1..Len(opps) :
               \A key \in DOMAIN opps[o] : row[key] = opps[o][key]

\* C23: every returned row carries the data of one matched pair: the
\* un-normalized Polymarket event_name, that pair's similarity, the four
\* prices handed to the evaluator for it, and the configured fees
C23_RowsCarryPair ==
    Returned =>
        \A k \in 1..Len(df) :
            \E p \in 1..Len(polymarket), q \in 1..Len(kalshi) :
                RowOfPair(df[k].row, polymarket[p], kalshi[q])

\* two returned rows that come from different Polymarket records and
\* different Kalshi records
C23_Witness ==
    /\ Returned
    /\ \E k \in 1..Len(df), l \in 1..Len(df) :
          /\ df[k].row.event_name # df[l].row.event_name
          /\ normalize_event_name(df[k].row.event_name)
                # normalize_event_name(df[l].row.event_name)
          /\ df[k].row.polymarket_yes # df[l].row.polymarket_yes
          /\ df[k].row.kalshi_yes # df[l].row.kalshi_yes
          /\ df[k].row.match_similarity # df[l].row.match_similarity

\* C24: no step of matching, evaluation or ranking changes the two input
\* lists: same records, same order, same field values
C24_InputsUnchanged == [][polymarket' = polymarket /\ kalshi' = kalshi]_vars

\* a finished run that matched and returned rows, and whose matches still
\* hold the input records as they are in the lists
C24_Witness ==
    /\ Returned
    /\ df # <<>>
    /\ Len(matches) > 1
    /\ \A i \in 1..Len(matches) :
          /\ \E p \in 1..Len(polymarket) : matches[i].polymarket = polymarket[p]
          /\ \E q \in 1..Len(kalshi) : matches[i].kalshi = kalshi[q]

\* the Kalshi price C25 names: the mid if its key is present, else the
\* price key, else 0
QuotedPrice(kal, mid, price) ==
    IF mid \in DOMAIN kal THEN kal[mid]
    ELSE IF price \in DOMAIN kal THEN kal[price] ELSE Zero

QuotedPrices(match) ==
    <<PolyYes(match.polymarket), PolyNo(match.polymarket),
      QuotedPrice(match.kalshi, "yes_mid", "yes_price"),
      QuotedPrice(match.kalshi, "no_mid", "no_price")>>

\* number of rows the matches 1..i are to contribute under C25
RECURSIVE QuotedRowsDue(_)
QuotedRowsDue(i) ==
    IF i = 0
    THEN 0
    ELSE QuotedRowsDue(i - 1)
         + (IF \E a \in 1..4 : QuotedPrices(matches[i])[a] = Zero
            THEN 0
            ELSE Len(calculate_arbitrage(QuotedPrices(matches[i])[1],
                                         QuotedPrices(matches[i])[2],
                                         QuotedPrices(matches[i])[3],
                                         QuotedPrices(matches[i])[4],
                                         POLYMARKET_FEE, KALSHI_FEE)))

\* C25: the Kalshi YES (NO) price evaluated is yes_mid (no_mid) whenever
\* that key is present and yes_price (no_price) only when it is absent; a
\* pair whose price so chosen is 0, as for a market quoted on one side
\* only, contributes no row
C25_MidBeforePrice ==
    Collected =>
        /\ \A k \in 1..Len(all_rows) :
              \E i \in 1..Len(matches) : RowPrices(all_rows[k]) = QuotedPrices(matches[i])
        /\ Len(all_rows) = QuotedRowsDue(Len(matches))
        /\ \A i \in 1..Len(matches) :
              ("yes_bid" \in DOMAIN matches[i].kalshi
                  /\ \E side \in {"yes_bid", "yes_ask", "no_bid", "no_ask"} :
                         matches[i].kalshi[side] = Zero) =>
                  \E a \in 3..4 : QuotedPrices(matches[i])[a] = Zero

\* a matched Kalshi record with yes_mid = 0 next to a usable yes_price: the
\* mid is the price read and the pair gives no row
C25_Witness ==
    /\ Collected
    /\ Len(matches) = 1
    /\ DOMAIN matches[1].kalshi = PriceKeys \cup {"event_name"}
    /\ matches[1].kalshi.yes_mid = Zero
    /\ matches[1].kalshi.no_mid # Zero
    /\ matches[1].polymarket.yes_price # Zero
    /\ all_rows = <<>>

\* position in its input list of the record a match refers to (an input
\* list names no record twice)
PolyIndex(i) == CHOOSE p \in 1..Len(polymarket) : polymarket[p] = matches[i].polymarket
KalshiIndex(i) == CHOOSE q \in 1..Len(kalshi) : kalshi[q] = matches[i].kalshi

\* C29: the matches stand in Polymarket-major, Kalshi-minor input order,
\* no (Polymarket, Kalshi) pair of positions appears twice, and there are
\* at most |A| x |B| matches
C29_MatchOrder ==
    Matched =>
        /\ \A i \in 1..Len(matches), j \in 1..Len(matches) :
              i < j => \/ PolyIndex(i) < PolyIndex(j)
                       \/ /\ PolyIndex(i) = PolyIndex(j)
                          /\ KalshiIndex(i) < KalshiIndex(j)
        /\ Len(matches) <= Len(polymarket) * Len(kalshi)

\* both Polymarket records matched with both Kalshi records
C29_Witness ==
    /\ Matched
    /\ Len(polymarket) = 2
    /\ Len(kalshi) = 2
    /\ Len(matches) = 4
    /\ <<PolyIndex(1), KalshiIndex(1)>> = <<1, 1>>
    /\ <<PolyIndex(2), KalshiIndex(2)>> = <<1, 2>>
    /\ <<PolyIndex(3), KalshiIndex(3)>> = <<2, 1>>
    /\ <<PolyIndex(4), KalshiIndex(4)>> = <<2, 2>>

\* the CSV an earlier run left: none if there was no earlier run or it
\* found nothing, else the rows it returned
EarlierCsv ==
    IF call.fn = "detect_arbitrage" /\ call.ret # <<>> THEN to_csv(call.ret) ELSE NoCsv

\* C30: a run that finds no candidates leaves the CSV as it was (an
\* earlier run's CSV is not written or truncated), so generate_report then
\* reports the earlier run's candidates; the CSV is written exactly when
\* the run found at least one candidate
C30_CsvKeptWhenNoCandidates ==
    /\ pc \in {"start", "matched", "collected", "returned"} => csv = EarlierCsv
    /\ pc \in {"done", "reported"} =>
          csv = IF df = <<>> THEN EarlierCsv ELSE to_csv(df)
    /\ (pc = "reported" /\ df = <<>>) =>
          /\ report \in generate_report(EarlierCsv)
          /\ report.total = IF call.fn = "detect_arbitrage" THEN Len(call.ret) ELSE 0

\* a second run on records of both venues that finds nothing, after a run
\* that found candidates: the report still lists the first run's rows
C30_Witness ==
    /\ pc = "reported"
    /\ call.fn = "detect_arbitrage"
    /\ call.ret # <<>>
    /\ polymarket # <<>>
    /\ kalshi # <<>>
    /\ df = <<>>
    /\ out = NoCandidates
    /\ csv = to_csv(call.ret)
    /\ report.total = Len(call.ret)
    /\ Len(report.table) = Len(call.ret)

\* C7: the returned rows are ordered non-increasing by profit_pct
C7_SortedDescending ==
    Returned =>
        \A k \in 1..(Len(df) - 1) :
            df[k + 1].row.profit_pct.n * df[k].row.profit_pct.d
               <= df[k].row.profit_pct.n * df[k + 1].row.profit_pct.d

\* at least three rows were ranked, not all with the same profit_pct
C7_Witness ==
    /\ Returned
    /\ Len(df) >= 3
    /\ df[1].row.profit_pct # df[Len(df)].row.profit_pct
    /\ \E k \in 1..Len(df) : df[k].index # k - 1

\* C8 as claimed: rows with equal profit_pct keep the relative order in
\* which they were produced
C8_StableSort ==
    Returned =>
        \A p \in 1..Len(df) : \A q \in 1..Len(df) :
            (p < q /\ df[p].row.profit_pct = df[q].row.profit_pct) =>
                df[p].index < df[q].index

\* C9: the ranked output is a permutation of the rows produced: the same
\* number of rows, every produced row exactly once
C9_Permutation ==
    Returned =>
        /\ Len(df) = Len(all_rows)
        /\ {df[k].index : k \in 1..Len(df)} = 0..(Len(all_rows) - 1)
        /\ \A k \in 1..Len(df) : df[k].row = all_rows[df[k].index + 1]

\* more than five rows were ranked, two of them with the same profit_pct,
\* and the ranking moved rows
C9_Witness ==
    /\ Returned
    /\ Len(df) > 5
    /\ \E i \in 1..Len(all_rows) : \E j \in 1..Len(all_rows) :
          i # j /\ all_rows[i].profit_pct = all_rows[j].profit_pct
    /\ \E k \in 1..Len(df) : df[k].index # k - 1

-----------------------------------------------------------------------------
(* Properties of normalize_event_name, checked on its direct calls         *)
(* (SpecNormalize)                                                         *)

\* C10 as claimed: normalize_event_name is idempotent,
\* normalize(normalize(s)) = normalize(s)
C10_Idempotent ==
    Called("normalize_event_name") => normalize_event_name(call.ret) = call.ret

\* the positions of name that survive: those from the first to the last
\* non-blank character that do not hold '?', '!', '.' or ','
KeptPositions(name) ==
    LET solid == {k \in 1..Len(name) : name[k] # " "}
    IN  {k \in 1..Len(name) :
            /\ \E lo \in solid : lo <= k
            /\ \E hi \in solid : k <= hi
            /\ name[k] \notin {"?", "!", ".", ","}}

\* C11: the result is the lowercased input without its leading and trailing
\* whitespace and without any '?', '!', '.', ','; every other character is
\* kept, in its original order; the empty string maps to the empty string
C11_NormalizeAsSpecified ==
    Called("normalize_event_name") =>
        LET name == call.args[1]
            kept == KeptPositions(name)
            rank(k) == Cardinality({j \in kept : j <= k})
        IN  /\ Len(call.ret) = Cardinality(kept)
            /\ \A k \in kept : call.ret[rank(k)] = LowerChar(name[k])
            /\ name = <<>> => call.ret = <<>>

\* a name with an upper-case letter, an inner blank, another punctuation
\* character and a '?', as in "Will it Rain?" -> "will it rain"
C11_Witness ==
    /\ Called("normalize_event_name")
    /\ call.args = <<<<"A", " ", "-", "?">>>>
    /\ call.ret = <<"a", " ", "-">>

-----------------------------------------------------------------------------
(* Properties of similarity, checked on its direct calls (SpecSimilarity)  *)

\* C12 as claimed: similarity(x, y) = similarity(y, x) for all strings
C12_Symmetric ==
    Called("similarity") => similarity(call.args[2], call.args[1]) = call.ret

\* C13: similarity(x, x) = 1.0 for every non-empty x, and two records with
\* the same non-empty name are matched, with similarity 1.0, at every
\* threshold <= 1.0
C13_SelfSimilarity ==
    /\ (Called("similarity") /\ call.args[1] = call.args[2] /\ call.args[1] # <<>>) =>
          call.ret = [n |-> 1, d |-> 1]
    /\ (/\ Called("find_matching_events")
        /\ call.args[1] = call.args[2]
        /\ call.args[1] # <<>>
        /\ MATCH_THRESHOLD.n <= MATCH_THRESHOLD.d) =>
          /\ Len(call.ret) = 1
          /\ call.ret[1].similarity = [n |-> 1, d |-> 1]
          /\ call.ret[1].polymarket.event_name = call.args[1]
          /\ call.ret[1].kalshi.event_name = call.args[2]

\* two records named "aaba" are matched at the threshold 1.0
C13_Witness ==
    /\ Called("find_matching_events")
    /\ MATCH_THRESHOLD = Rat(1, 1)
    /\ call.args = <<<<"a", "a", "b", "a">>, <<"a", "a", "b", "a">>>>
    /\ Len(call.ret) = 1

\* C14: similarity(x, y) is 1.0 only for identical strings, is 0.0 when one
\* string is empty and the other is not, and always lies in [0, 1]
C14_SimilarityRange ==
    Called("similarity") =>
        /\ call.ret.n = call.ret.d => call.args[1] = call.args[2]
        /\ (call.args[1] # <<>> /\ call.args[2] = <<>>) => call.ret.n = 0
        /\ 0 <= call.ret.n
        /\ call.ret.n <= call.ret.d
        /\ call.ret.d > 0

\* two different strings made of the same characters score below 1.0
C14_Witness ==
    /\ Called("similarity")
    /\ call.args = <<<<"a", "b">>, <<"b", "a">>>>
    /\ call.ret = Rat(1, 2)

-----------------------------------------------------------------------------
(* C27 *)

\* the statement as the specification words it, read on the floats the
\* program computes with: a spread whose price test passed is emitted
SpreadsPassedAreEmitted ==
    LET poly_yes == call.args[1]
        kalshi_yes == call.args[3]
    IN  (Lt(Zero, poly_yes) /\ Lt(Zero, kalshi_yes)) =>
           /\ FloatSpreadOpen(poly_yes, kalshi_yes, POLYMARKET_FEE, KALSHI_FEE)
                 => Emitted(SpreadPoly) # {}
           /\ FloatSpreadOpen(kalshi_yes, poly_yes, POLYMARKET_FEE, KALSHI_FEE)
                 => Emitted(SpreadKalshi) # {}

\* C27 as stated: with positive prices and non-negative fee rates, a spread
\* that passed the price test buy < sell*(1 - KALSHI_FEE - POLYMARKET_FEE) has
\* a computed profit > 0, so the inner check never rejects it.
C27_Original ==
    Called("calculate_arbitrage") => SpreadsPassedAreEmitted

\* C27 amended: the price test implies a profit > 0 in exact arithmetic, and
\* in floating point when both fee rates are 0; there a spread that passed
\* the price test is never rejected by the inner check.
C27_PriceTestImpliesProfit ==
    Called("calculate_arbitrage") =>
        LET poly_yes == call.args[1]
            kalshi_yes == call.args[3]
        IN  /\ (POLYMARKET_FEE = Zero /\ KALSHI_FEE = Zero) => SpreadsPassedAreEmitted
            /\ (Lt(Zero, poly_yes) /\ Lt(Zero, kalshi_yes)) =>
                  /\ SpreadOpen(poly_yes, kalshi_yes, POLYMARKET_FEE, KALSHI_FEE)
                        => Lt(Zero, SpreadProfit(poly_yes, kalshi_yes, poly_yes,
                                                 kalshi_yes, POLYMARKET_FEE, KALSHI_FEE))
                  /\ SpreadOpen(kalshi_yes, poly_yes, POLYMARKET_FEE, KALSHI_FEE)
                        => Lt(Zero, SpreadProfit(kalshi_yes, poly_yes, poly_yes,
                                                 kalshi_yes, POLYMARKET_FEE, KALSHI_FEE))

\* a call without fees whose Polymarket YES price is below the Kalshi one:
\* the spread passed the price test and is in the returned list
C27_Witness ==
    /\ Called("calculate_arbitrage")
    /\ POLYMARKET_FEE = Zero
    /\ KALSHI_FEE = Zero
    /\ FloatSpreadOpen(call.args[1], call.args[3], POLYMARKET_FEE, KALSHI_FEE)
    /\ Emitted(SpreadPoly) # {}

=============================================================================
